---- MODULE Spec2Model ----
(***************************************************************************)
(* A model of the star-registry ledger of src/src/blockchain.js: the       *)
(* Blockchain class (constructor, initializeChain, _addBlock, submitStar,  *)
(* validateChain, getStarsByWalletAddress) over the Block of ./block.js.   *)
(***************************************************************************)
EXTENDS Integers, Sequences, FiniteSets, TLC

\* ------------------------------------------------------------------ bounds
\* The longest chain explored (genesis included).
MaxBlocks == 4
\* The number of times a committed block is modified from outside.
MaxTamper == 1
\* The longest chain explored while every reader runs beside the writers.
MaxReadBlocks == 2

\* ------------------------------------------------------------------ inputs
Addresses == {"A", "B"}
Stars == {"s1"}
\* Wall-clock instants (milliseconds) the clock passes through.
ClockValues == {1000000, 1299999, 1300000, 1301000, 301000000}

\* ------------------------------------------------------------ JS values
Null == <<>>
Undefined == "undefined"

\* A JS number that may be NaN.
Num(n) == [nan |-> FALSE, val |-> n]
NaN == [nan |-> TRUE, val |-> 0]
Sub(a, b) == IF a.nan \/ b.nan THEN NaN ELSE Num(a.val - b.val)
\* a < b: false as soon as one side is NaN.
Lt(a, b) == ~a.nan /\ ~b.nan /\ a.val < b.val

\* The decimal strings the model's messages carry, with their values.
Digits == ("1000" :> 1000) @@ ("1299" :> 1299) @@ ("1300" :> 1300)
          @@ ("1301" :> 1301) @@ ("301000" :> 301000)
toString(n) == CHOOSE s \in DOMAIN Digits : Digits[s] = n
\* parseInt: the integer a decimal string denotes, NaN for anything else.
ParseInt(s) == IF s \in DOMAIN Digits THEN Num(Digits[s]) ELSE NaN

\* new Date().getTime().toString().slice(0, -3): the decimal string of the
\* millisecond clock without its last three digits.
SliceSeconds(ms) == toString(ms \div 1000)

\* An object is truthy whatever it holds; a boolean is its value.
Truthy(v) ==
    CASE v.type = "object" -> TRUE
      [] v.type = "boolean" -> v.value
      [] OTHER -> FALSE

\* ------------------------------------------------------------ block.js
\* The payload in its encoded form, and back.
Encode(data) == <<"hex", data>>
DecodeError == [error |-> "DecodeError"]
Decode(body) == IF body[1] = "hex" THEN body[2] ELSE DecodeError

\* new BlockClass.Block(data): every field but the payload unset.
Block(data) ==
    [hash |-> Null, height |-> 0, body |-> Encode(data), time |-> "0",
     previousBlockHash |-> Null]

\* SHA256(JSON.stringify(block)).toString(): a collision-free digest, the
\* tuple of the serialised fields.
SHA256(b) == <<b.hash, b.height, b.body, b.time, b.previousBlockHash>>

\* block.validate(): the hash recomputed over the block's fields, its stored
\* hash left out, equals the stored hash.
validate(b) == SHA256([b EXCEPT !.hash = Null]) = b.hash

VARIABLES
    chain,        \* this.chain
    height,       \* this.height
    clock,        \* the wall clock, in milliseconds
    constructed,  \* the constructor has returned
    tampers,      \* modifications made to committed blocks so far
    last,         \* the last call made on the ledger and how it settled
    v,            \* the validateChain() call in flight
    q             \* the getStarsByWalletAddress() call in flight

vars == <<chain, height, clock, constructed, tampers, last, v, q>>

Idle == [pc |-> "idle"]

\* ---------------------------------------------------------- validateChain
\* What one pass of validateChain's loop body records for index i, isValid
\* being what chain[i].validate() resolved with.
BlockErrors(ch, i, isValid) ==
    (IF ~isValid
        THEN <<[height |-> i, kind |-> "invalid"]>> ELSE <<>>)
    \o (IF i > 0 /\ ch[i + 1].previousBlockHash # ch[i].hash
        THEN <<[height |-> i, kind |-> "invalid previous block hash"]>>
        ELSE <<>>)

RECURSIVE ErrorsFrom(_, _, _)
ErrorsFrom(ch, h, i) ==
    IF i < h
    THEN BlockErrors(ch, i, validate(ch[i + 1])) \o ErrorsFrom(ch, h, i + 1)
    ELSE <<>>

\* The error log of a validateChain() that runs undisturbed on (ch, h):
\* for (let i = 0; i < self.height; i++).
errorLog(ch, h) == ErrorsFrom(ch, h, 0)

\* The value of the call expression this.validateChain(): a Promise object,
\* whatever the error log it will resolve with.
validateChain == [type |-> "object", class |-> "Promise"]

\* The loop test at index i: the call either waits for chain[i].validate(),
\* whose result is computed from the block as it is now, or resolves.
LoopAt(i, log, h0, t0) ==
    IF i < height
    THEN [pc |-> "await", i |-> i, isValid |-> validate(chain[i + 1]),
          errorLog |-> log, height0 |-> h0, tampers0 |-> t0]
    ELSE [pc |-> "done", errorLog |-> log, height0 |-> h0, tampers0 |-> t0]

\* validateChain() called from outside: runs up to its first await.
ValidateChain ==
    /\ constructed
    /\ v.pc \in {"idle", "done"}
    /\ v' = LoopAt(0, <<>>, height, tampers)
    /\ last' = [op |-> "validateChain"]
    /\ UNCHANGED <<chain, height, clock, constructed, tampers, q>>

\* validateChain as it would be if it re-derived the hash of a block it
\* found invalid.
ValidateResumeRepairing ==
    /\ v.pc = "await"
    /\ v' = LoopAt(v.i + 1,
                   v.errorLog \o BlockErrors(chain, v.i, v.isValid),
                   v.height0, v.tampers0)
    /\ chain' = IF v.isValid THEN chain
                ELSE [chain EXCEPT ![v.i + 1].hash =
                         SHA256([chain[v.i + 1] EXCEPT !.hash = Null])]
    /\ UNCHANGED <<height, clock, constructed, tampers, last, q>>

\* The call resumes after its await: the rest of the loop body, i++ and the
\* loop test.
ValidateResume ==
    /\ v.pc = "await"
    /\ v' = LoopAt(v.i + 1,
                   v.errorLog \o BlockErrors(chain, v.i, v.isValid),
                   v.height0, v.tampers0)
    /\ UNCHANGED <<chain, height, clock, constructed, tampers, last, q>>

\* -------------------------------------------------------------- _addBlock
\* _addBlock as it would be if the head it links to were one read before
\* another call's commit: the first block, whatever the head is by now.
StampStaleHead(block) ==
    LET stamped ==
            IF Len(chain) > 0
            THEN [block EXCEPT !.height = height,
                               !.previousBlockHash = chain[1].hash,
                               !.time = SliceSeconds(clock)]
            ELSE [block EXCEPT !.height = 0,
                               !.previousBlockHash = Null,
                               !.time = SliceSeconds(clock)]
    IN [stamped EXCEPT !.hash = SHA256(stamped)]

\* _addBlock as it would be if it hashed the block before stamping it.
StampHashFirst(block) ==
    LET hashed == [block EXCEPT !.hash = SHA256(block)]
    IN IF Len(chain) > 0
       THEN [hashed EXCEPT !.height = height,
                           !.previousBlockHash = chain[Len(chain)].hash,
                           !.time = SliceSeconds(clock)]
       ELSE [hashed EXCEPT !.height = 0,
                           !.previousBlockHash = Null,
                           !.time = SliceSeconds(clock)]

\* The block as _addBlock stamps and hashes it, on the ledger as it stands.
Stamp(block) ==
    LET stamped ==
            IF Len(chain) > 0
            THEN [block EXCEPT !.height = height,
                               !.previousBlockHash = chain[Len(chain)].hash,
                               !.time = SliceSeconds(clock)]
            ELSE [block EXCEPT !.height = 0,
                               !.previousBlockHash = Null,
                               !.time = SliceSeconds(clock)]
    IN [stamped EXCEPT !.hash = SHA256(stamped)]

\* if (this.validateChain()): the branch _addBlock takes.
Commits == Truthy(validateChain)

\* _addBlock as it would be with unshift in place of push.
_addBlockUnshift(block) ==
    IF Commits
    THEN /\ chain' = <<Stamp(block)>> \o chain
         /\ height' = height + 1
    ELSE UNCHANGED <<chain, height>>

\* _addBlock as it would be without `self.height++`.
_addBlockNoIncrement(block) ==
    IF Commits
    THEN /\ chain' = Append(chain, Stamp(block))
         /\ height' = height
    ELSE UNCHANGED <<chain, height>>

_addBlock(block) ==
    IF Commits
    THEN /\ chain' = Append(chain, Stamp(block))
         /\ height' = height + 1
    ELSE UNCHANGED <<chain, height>>

AddBlockOutcome ==
    IF Commits
    THEN [outcome |-> "resolved", error |-> ""]
    ELSE [outcome |-> "rejected", error |-> "Error adding block: invalid chain"]

\* --------------------------------------------------------- initializeChain
Genesis == Block([data |-> "Genesis Block"])

\* initializeChain as it would be without its test of the height.
initializeChainUnguarded == _addBlock(Genesis)

\* initializeChain as it would be if it took height 0 for the empty ledger.
initializeChainFromZero ==
    IF height = 0 THEN _addBlock(Genesis) ELSE UNCHANGED <<chain, height>>

initializeChain ==
    IF height = -1 THEN _addBlock(Genesis) ELSE UNCHANGED <<chain, height>>

\* new Blockchain()
Constructor ==
    /\ ~constructed
    /\ initializeChain
    /\ constructed' = TRUE
    /\ last' = [op |-> "constructor"]
    /\ UNCHANGED <<clock, tampers, v, q>>

\* initializeChain() called again on the constructed ledger.
InitializeChain ==
    /\ constructed
    /\ initializeChain
    /\ last' = [op |-> "initializeChain"]
    /\ UNCHANGED <<clock, constructed, tampers, v, q>>

\* _addBlock(new Block(data)) called directly.
AddBlock(data) ==
    /\ constructed
    /\ Len(chain) < MaxBlocks
    /\ _addBlock(Block(data))
    /\ last' = [op |-> "_addBlock"] @@ AddBlockOutcome
    /\ UNCHANGED <<clock, constructed, tampers, v, q>>

\* ------------------------------------------- requestMessageOwnershipVerification
Message(address) == <<address, SliceSeconds(clock), "starRegistry">>

RequestMessageOwnershipVerification(address) ==
    /\ constructed
    /\ last' = [op |-> "requestMessageOwnershipVerification",
                outcome |-> "resolved", value |-> Message(address)]
    /\ UNCHANGED <<chain, height, clock, constructed, tampers, v, q>>

\* -------------------------------------------------------------- submitStar
\* message.split(':')[k - 1]
Field(message, k) == IF k <= Len(message) THEN message[k] ELSE Undefined

\* bitcoinMessage.verify: the signature is the signer's over this message.
Verify(message, address, signature) ==
    signature.signer = address /\ signature.message = message

\* A signature that is no signature at all (it does not decode to one).
Malformed == "malformed"

\* bitcoinMessage.verify throws instead of returning.
VerifyThrows(message, address, signature) == signature.signer = Malformed

\* message.split throws: the message is null, not a string.
SplitThrows(message) == message = Null

\* An exception inside the async executor: nothing calls resolve or reject
\* afterwards, and the exception is an unhandled rejection.
Threw == [outcome |-> "pending", error |-> "uncaught"]

\* The number submitStar compares the elapsed seconds with.
Window == 300000

\* currentTime - messageTime, at the instant ms of the clock.
Elapsed(message, ms) ==
    Sub(ParseInt(SliceSeconds(ms)), ParseInt(Field(message, 2)))

\* The test as it would be written !(currentTime - messageTime >= 300000).
InTimeNotExpired(message) ==
    ~(~Elapsed(message, clock).nan /\ Elapsed(message, clock).val >= Window)

\* currentTime - messageTime < 300000
InTime(message) == Lt(Elapsed(message, clock), Num(Window))

Submitted(address, message, signature) ==
    [op |-> "submitStar", address |-> address, message |-> message,
     signature |-> signature]

\* submitStar as it would be without the signature check.
SubmitStarUnverified(address, message, signature, star) ==
    /\ constructed
    /\ Len(chain) < MaxBlocks
    /\ IF InTime(message)
       THEN /\ _addBlock(Block([owner |-> address, data |-> star]))
            /\ last' = Submitted(address, message, signature)
                       @@ AddBlockOutcome
       ELSE /\ UNCHANGED <<chain, height>>
            /\ last' = Submitted(address, message, signature)
                       @@ [outcome |-> "rejected", error |-> "Message expired"]
    /\ UNCHANGED <<clock, constructed, tampers, v, q>>

SubmitStar(address, message, signature, star) ==
    /\ constructed
    /\ Len(chain) < MaxBlocks
    /\ IF SplitThrows(message)
       THEN /\ UNCHANGED <<chain, height>>
            /\ last' = Submitted(address, message, signature)
                       @@ [verifyCalled |-> FALSE] @@ Threw
       ELSE IF InTime(message)
       THEN IF VerifyThrows(message, address, signature)
            THEN /\ UNCHANGED <<chain, height>>
                 /\ last' = Submitted(address, message, signature)
                            @@ [verifyCalled |-> TRUE] @@ Threw
            ELSE IF Verify(message, address, signature)
            THEN /\ _addBlock(Block([owner |-> address, data |-> star]))
                 /\ last' = Submitted(address, message, signature)
                            @@ [verifyCalled |-> TRUE] @@ AddBlockOutcome
            ELSE /\ UNCHANGED <<chain, height>>
                 /\ last' = Submitted(address, message, signature)
                            @@ [verifyCalled |-> TRUE,
                                outcome |-> "rejected",
                                error |-> "Invalid message or signature"]
       ELSE /\ UNCHANGED <<chain, height>>
            /\ last' = Submitted(address, message, signature)
                       @@ [verifyCalled |-> FALSE,
                           outcome |-> "rejected", error |-> "Message expired"]
    /\ UNCHANGED <<clock, constructed, tampers, v, q>>

\* ------------------------------------------------------------ point queries
\* The value a promise resolves with: null, or the block found.
Found(blocks) == IF blocks = <<>> THEN Null ELSE <<Head(blocks)>>

\* getChainHeight()
GetChainHeight ==
    /\ constructed
    /\ last' = [op |-> "getChainHeight", outcome |-> "resolved",
                value |-> height]
    /\ UNCHANGED <<chain, height, clock, constructed, tampers, v, q>>

\* getBlockByHash(hash): self.chain.find(b => b.hash === hash)
GetBlockByHash(hash) ==
    /\ constructed
    /\ LET block == Found(SelectSeq(chain, LAMBDA b : b.hash = hash))
       IN last' = IF block # Null
                  THEN [op |-> "getBlockByHash", hash |-> hash,
                        outcome |-> "resolved", value |-> block]
                  ELSE [op |-> "getBlockByHash", hash |-> hash,
                        outcome |-> "rejected", error |-> "Block not found"]
    /\ UNCHANGED <<chain, height, clock, constructed, tampers, v, q>>

\* getBlockByHeight(h): self.chain.filter(p => p.height === height)[0]
GetBlockByHeight(h) ==
    /\ constructed
    /\ last' = [op |-> "getBlockByHeight", height |-> h,
                outcome |-> "resolved",
                value |-> Found(SelectSeq(chain, LAMBDA p : p.height = h))]
    /\ UNCHANGED <<chain, height, clock, constructed, tampers, v, q>>

\* ------------------------------------------------- getStarsByWalletAddress
\* dataB.owner
Owner(dataB) == IF "owner" \in DOMAIN dataB THEN dataB.owner ELSE Undefined

\* What the callback of block i does once its getBData() has settled with
\* `settled`: a payload that decoded is pushed when its owner is the address.
Pushed(stars, address, settled) ==
    IF "error" \in DOMAIN settled
    THEN stars
    ELSE IF Owner(settled) = address THEN Append(stars, settled) ELSE stars

\* getStarsByWalletAddress(address): forEach starts one callback per block,
\* each stops at its await of block.getBData(), and the promise resolves with
\* the stars array as it is.
GetStarsByWalletAddress(address) ==
    /\ constructed
    /\ q.pc = "idle"
    /\ q' = [pc |-> "resolved", address |-> address, stars |-> <<>>,
             pending |-> {[i |-> i, settled |-> Decode(chain[i].body)] :
                             i \in 1..Len(chain)},
             chain0 |-> chain]
    /\ last' = [op |-> "getStarsByWalletAddress"]
    /\ UNCHANGED <<chain, height, clock, constructed, tampers, v>>

\* One block's getBData() settles and its callback runs to the end.
Decoded ==
    /\ q.pc \in {"resolved", "received"}
    /\ \E p \in q.pending :
          q' = [q EXCEPT !.pending = @ \ {p},
                         !.stars = Pushed(@, q.address, p.settled)]
    /\ UNCHANGED <<chain, height, clock, constructed, tampers, last, v>>

\* The caller's continuation runs: it reads the array it was resolved with.
Receive ==
    /\ q.pc = "resolved"
    /\ q' = [q EXCEPT !.pc = "received"] @@ [received |-> q.stars]
    /\ UNCHANGED <<chain, height, clock, constructed, tampers, last, v>>

\* ------------------------------------------------------------ environment
Tick ==
    /\ \E t \in ClockValues : t > clock /\ clock' = t
    /\ last' = [op |-> "none"]
    /\ UNCHANGED <<chain, height, constructed, tampers, v, q>>

\* A value no block hashes to.
Bogus == <<"bogus">>

\* The committed block b with one field changed and its hash left as it was.
Tampered(b) ==
    {[b EXCEPT !.height = b.height + 1],
     [b EXCEPT !.time = "0"],
     [b EXCEPT !.previousBlockHash = Bogus],
     [b EXCEPT !.body = Encode([owner |-> "M", data |-> "s1"])]}

\* The block at index i with stored bytes that are not validly encoded.
Corrupted(i) == [chain[i] EXCEPT !.body = <<"bad">>]

\* The block at index i with another payload in place of its own.
Rewritten(i) == [chain[i] EXCEPT !.body = Encode([owner |-> "M", data |-> "s1"])]

\* The holder of a reference to the committed block at index i writes one of
\* its fields, which leaves the block as b.
Tamper(i, b) ==
    /\ constructed
    /\ tampers < MaxTamper
    /\ i \in 1..Len(chain)
    /\ b \in Tampered(chain[i]) \cup {Corrupted(i)}
    /\ chain' = [chain EXCEPT ![i] = b]
    /\ tampers' = tampers + 1
    /\ last' = [op |-> "none"]
    /\ UNCHANGED <<height, clock, constructed, v, q>>

\* ------------------------------------------------------------------ inputs
TimeFields == {"1000", "1301", "abc"}
\* The messages a caller submits: a challenge of some instant, text with no
\* integer where the instant goes, text with no second field, and null.
Messages(address) ==
    {<<address, f, "starRegistry">> : f \in TimeFields}
    \cup {<<address>>, Null}
Signatures(address, message) ==
    {[signer |-> s, message |-> message] : s \in Addresses \cup {Malformed}}
    \cup {[signer |-> address,
           message |-> <<address, "1299", "starRegistry">>]}
Payloads == [owner : Addresses, data : Stars]
\* The stars registered on the ledger that is queried by owner: two of one
\* owner that differ, so that their order shows, and one of another owner.
QueryPayloads ==
    {[owner |-> "A", data |-> "s1"], [owner |-> "A", data |-> "s2"],
     [owner |-> "B", data |-> "s1"]}
\* The heights and hashes a caller looks up: those of the ledger and some
\* that are not there.
Heights == -1..MaxBlocks
Hashes == {chain[i].hash : i \in 1..Len(chain)} \cup {Bogus}

Init ==
    /\ chain = <<>>
    /\ height = -1
    /\ clock = 1000000
    /\ constructed = FALSE
    /\ tampers = 0
    /\ last = [op |-> "none"]
    /\ v = Idle
    /\ q = Idle

\* The ledger under its own operations.
Next ==
    \/ Constructor
    \/ InitializeChain
    \/ \E data \in Payloads : AddBlock(data)
    \/ \E address \in Addresses : RequestMessageOwnershipVerification(address)
    \/ \E address \in Addresses, star \in Stars :
         \E message \in Messages(address) :
            \E signature \in Signatures(address, message) :
               SubmitStar(address, message, signature, star)
    \/ GetChainHeight
    \/ \E hash \in Hashes : GetBlockByHash(hash)
    \/ \E h \in Heights : GetBlockByHeight(h)
    \/ Tick

Spec == Init /\ [][Next]_vars

\* The ledger with committed blocks written to from outside, and validated.
NextTamper ==
    \/ Constructor
    \/ \E data \in Payloads : AddBlock(data)
    \/ \E i \in 1..Len(chain) : \E b \in Tampered(chain[i]) : Tamper(i, b)
    \/ ValidateChain
    \/ ValidateResume

SpecTamper == Init /\ [][NextTamper]_vars

\* The ledger queried by owner.
NextQuery ==
    \/ Constructor
    \/ \E data \in QueryPayloads : AddBlock(data)
    \/ \E i \in 1..Len(chain) : q.pc = "idle" /\ Tamper(i, Corrupted(i))
    \/ \E address \in Addresses : GetStarsByWalletAddress(address)
    \/ Decoded
    \/ Receive

SpecQuery == Init /\ [][NextQuery]_vars

\* The ledger read while it grows and while committed blocks are written to
\* from outside.
NextRead ==
    \/ Constructor
    \/ \E data \in Payloads : Len(chain) < MaxReadBlocks /\ AddBlock(data)
    \/ \E i \in 1..Len(chain) : Tamper(i, Rewritten(i))
    \/ GetChainHeight
    \/ \E address \in {"A"} : RequestMessageOwnershipVerification(address)
    \/ \E hash \in {chain[i].hash : i \in {j \in 1..Len(chain) : j = 1}}
                  \cup {Bogus} : GetBlockByHash(hash)
    \/ \E h \in {1} : GetBlockByHeight(h)
    \/ ValidateChain
    \/ ValidateResume
    \/ \E address \in {"A"} : GetStarsByWalletAddress(address)
    \/ Decoded
    \/ Receive

SpecRead == Init /\ [][NextRead]_vars

\* ------------------------------------------------------------------ claims

\* C1: every append onto a ledger of height h >= 0 commits a block of height
\* h + 1 whose previousBlockHash is the hash of the head before the call.
C1_AppendMonotonicity ==
    [][(Len(chain') = Len(chain) + 1 /\ height >= 0 /\ Len(chain) >= 1)
        => /\ chain'[Len(chain')].height = height + 1
           /\ chain'[Len(chain')].previousBlockHash = chain[Len(chain)].hash]_vars

\* C2: the block at index i of chain carries height i, so that no two
\* committed blocks carry the same height.
C2_HeightIsIndex ==
    /\ \A i \in 1..Len(chain) : chain[i].height = i - 1
    /\ \A i, j \in 1..Len(chain) : chain[i].height = chain[j].height => i = j

\* C3: a step of the ledger taken while full-chain validation reports an
\* inconsistency leaves chain and height as they were: a block is committed
\* only when the validation's error list is empty.
C3_ValidateBeforeCommit ==
    [][(tampers' = tampers /\ errorLog(chain, height) # <<>>)
        => (chain' = chain /\ height' = height)]_vars

\* The heights the errors of a log refer to.
Reported(log) == {log[k].height : k \in 1..Len(log)}

\* C4: a validateChain() that has resolved reports, for every height h up to
\* the height the ledger had at the call (the head included), the block at h
\* when it was modified before the call without its hash being re-derived.
C4_TamperDetection ==
    (v.pc = "done" /\ tampers = v.tampers0)
    => \A h \in 0..v.height0 :
          ~validate(chain[h + 1]) => h \in Reported(v.errorLog)

\* C5: a validateChain() that has resolved flags, for every index i with
\* 0 < i <= height, the block at i as having an invalid previous block hash
\* when its previousBlockHash was replaced before the call by a value that is
\* not the hash of the block at i - 1.
C5_LinkDetection ==
    (v.pc = "done" /\ tampers = v.tampers0)
    => \A i \in 1..v.height0 :
          chain[i + 1].previousBlockHash # chain[i].hash
          => \E k \in 1..Len(v.errorLog) :
                v.errorLog[k] =
                    [height |-> i, kind |-> "invalid previous block hash"]

\* C6: a submitStar whose message carries a timestamp is rejected as expired
\* exactly when 300 seconds or more have elapsed since that timestamp.
C6_ChallengeExpiry ==
    (last.op = "submitStar" /\ ~Elapsed(last.message, clock).nan)
    => (Elapsed(last.message, clock).val >= 300
        <=> last.error = "Message expired")

\* C7: a submitStar made less than 300 seconds after its message's timestamp
\* with a well-formed signature that does not verify against the message and
\* the address
\* is rejected with the invalid-signature error and leaves chain and height
\* as they were.
C7_SignatureGate ==
    [][(/\ last'.op = "submitStar"
        /\ ~Elapsed(last'.message, clock').nan
        /\ Elapsed(last'.message, clock').val < 300
        /\ ~VerifyThrows(last'.message, last'.address, last'.signature)
        /\ ~Verify(last'.message, last'.address, last'.signature))
        => /\ last'.outcome = "rejected"
           /\ last'.error = "Invalid message or signature"
           /\ chain' = chain
           /\ height' = height]_vars

\* A wrongly signed submitStar was rejected on a ledger that holds a star.
C7_Witness ==
    /\ last.op = "submitStar"
    /\ ~Elapsed(last.message, clock).nan
    /\ Elapsed(last.message, clock).val < 300
    /\ ~VerifyThrows(last.message, last.address, last.signature)
    /\ ~Verify(last.message, last.address, last.signature)
    /\ Len(chain) >= 2

\* C8: height is length(chain) - 1 in every state: after construction, after
\* every append and after every rejected call.
C8_HeightIsLength == height = Len(chain) - 1

\* A submitStar was rejected after two blocks had been committed.
C8_Witness ==
    /\ last.op = "submitStar"
    /\ last.outcome = "rejected"
    /\ Len(chain) >= 2
    /\ height = Len(chain) - 1

\* C9: once the constructor has returned, height is 0 and chain holds one
\* block, of height 0, with no previous hash and a hash that its
\* self-validation reproduces.
C9_GenesisInvariant ==
    last.op = "constructor"
    => /\ constructed
       /\ height = 0
       /\ Len(chain) = 1
       /\ chain[1].height = 0
       /\ chain[1].previousBlockHash = Null
       /\ chain[1].hash # Null
       /\ validate(chain[1])

\* The constructor has just returned.
C9_Witness == last.op = "constructor" /\ constructed /\ Len(chain) = 1

\* The decoded payloads of the blocks of ch that the address owns, in chain
\* order.
RECURSIVE OwnedBy(_, _)
OwnedBy(ch, address) ==
    IF ch = <<>> THEN <<>>
    ELSE LET d == Decode(Head(ch).body)
         IN (IF "error" \notin DOMAIN d /\ Owner(d) = address
             THEN <<d>> ELSE <<>>) \o OwnedBy(Tail(ch), address)

\* C10: the list getStarsByWalletAddress(A) resolved with holds, when the
\* caller receives it, exactly the payloads of the A-owned blocks of the
\* ledger, in chain order.
C10_OwnerQuery ==
    q.pc = "received" => q.received = OwnedBy(q.chain0, q.address)

\* C11: every submitStar call has settled its promise, with the committed
\* block or with an error, once its executor has run: no input leaves the
\* promise pending or raises an exception nothing catches.
C11_SubmitStarSettles ==
    last.op = "submitStar" => last.outcome \in {"resolved", "rejected"}

\* C20: a submitStar whose message is text with no integer in its second
\* colon-separated field (a missing field or non-numeric text) is rejected
\* with 'Message expired', without the signature verifier being called, and
\* leaves chain and height as they were.
C20_UnparseableTimestamp ==
    [][(/\ last'.op = "submitStar"
        /\ ~SplitThrows(last'.message)
        /\ ParseInt(Field(last'.message, 2)).nan)
        => /\ last'.outcome = "rejected"
           /\ last'.error = "Message expired"
           /\ ~last'.verifyCalled
           /\ chain' = chain
           /\ height' = height]_vars

\* A message with no second field was submitted with a signature the
\* verifier would throw on, on a ledger that holds a star.
C20_Witness ==
    /\ last.op = "submitStar"
    /\ last.message = <<last.address>>
    /\ last.signature.signer = Malformed
    /\ last.error = "Message expired"
    /\ Len(chain) >= 2

\* C12: on a ledger of height H, getBlockByHeight(h) resolves with the block
\* stored at chain[h] for 0 <= h <= H and with null for any other h.
C12_HeightLookup ==
    last.op = "getBlockByHeight"
    => /\ last.outcome = "resolved"
       /\ last.value = IF 0 <= last.height /\ last.height <= height
                       THEN <<chain[last.height + 1]>>
                       ELSE Null

\* C13: on a ledger no block of which was modified after commit, a
\* validateChain() that has resolved did so with an empty error list, every
\* committed block's stored hash is reproduced from its stored fields, and
\* every block's previousBlockHash is its predecessor's hash.
C13_UntouchedChainIsValid ==
    (v.pc = "done" /\ tampers = 0)
    => /\ v.errorLog = <<>>
       /\ \A i \in 1..Len(chain) :
             /\ validate(chain[i])
             /\ i > 1 => chain[i].previousBlockHash = chain[i - 1].hash

\* A validateChain() called on an untouched ledger of three blocks or more
\* has resolved.
C13_Witness ==
    /\ v.pc = "done"
    /\ tampers = 0
    /\ v.height0 >= 2
    /\ Len(chain) >= 3

\* The calls that only read the ledger.
ReadOps ==
    {"validateChain", "getBlockByHash", "getBlockByHeight",
     "getStarsByWalletAddress", "getChainHeight",
     "requestMessageOwnershipVerification"}

\* C14: every step of validateChain, getBlockByHash, getBlockByHeight,
\* getStarsByWalletAddress, getChainHeight and
\* requestMessageOwnershipVerification leaves chain and height as they were,
\* whatever it results in; validateChain repairs no block it reports.
C14_ReadOnly ==
    [][(v' # v \/ q' # q \/ last'.op \in ReadOps)
        => (chain' = chain /\ height' = height)]_vars

\* A validateChain() has reported a block that is still as it was reported,
\* and an owner query has been answered.
C14_Witness ==
    /\ v.pc = "done"
    /\ v.errorLog # <<>>
    /\ \E i \in 1..Len(chain) : ~validate(chain[i])
    /\ q.pc = "received"

\* C15: the read-head, stamp, hash, validate, commit sequences of the
\* submitStar and _addBlock calls made on the ledger never interleave: every
\* block after the first is linked to the block before it, and no two
\* committed blocks are linked to the same head.
C15_AppendsDoNotInterleave ==
    /\ \A i \in 2..Len(chain) :
          chain[i].previousBlockHash = chain[i - 1].hash
    /\ \A i, j \in 1..Len(chain) :
          chain[i].previousBlockHash = chain[j].previousBlockHash => i = j

\* Three appends have been committed, the last of them by submitStar.
C15_Witness ==
    /\ Len(chain) >= 4
    /\ last.op = "submitStar"
    /\ last.outcome = "resolved"

\* C17: every step leaves chain as it was or extends it by exactly one block
\* at its end: the chain before the step is a prefix of the chain after it.
C17_AppendOnly ==
    [][\/ chain' = chain
       \/ /\ Len(chain') = Len(chain) + 1
          /\ SubSeq(chain', 1, Len(chain)) = chain]_vars

\* Two blocks have been appended after the genesis block.
C17_Witness == Len(chain) >= 3 /\ last.op \in {"submitStar", "_addBlock"}

\* C19: the first block is the only one with no previous block hash, and
\* initializeChain called again on the constructed ledger changes neither
\* chain nor height.
C19_GenesisOnce ==
    [][/\ \A i \in 1..Len(chain') :
             chain'[i].previousBlockHash = Null <=> i = 1
       /\ last'.op = "initializeChain"
             => (chain' = chain /\ height' = height)]_vars

\* initializeChain was called on a ledger that holds a star.
C19_Witness == last.op = "initializeChain" /\ Len(chain) >= 2

\* C16: getStarsByWalletAddress has resolved only once the decode attempt of
\* every block of the ledger has resolved or failed.
C16_ResolvesAfterDecodes ==
    q.pc \in {"resolved", "received"} => q.pending = {}

\* Some block of ch holds a payload that fails to decode.
HasCorruptBlock(ch) ==
    \E i \in 1..Len(ch) : "error" \in DOMAIN Decode(ch[i].body)

\* C18: when a block of the ledger fails to decode, the list the owner query
\* resolved with still holds, when the caller receives it, the payloads of
\* every other block the address owns, in chain order.
C18_CorruptBlockSkipped ==
    (q.pc = "received" /\ HasCorruptBlock(q.chain0))
        => q.received = OwnedBy(q.chain0, q.address)

====
